---- MODULE Spec2Model ----
(***************************************************************************)
(* A model of instance_segmentation_demo/model_utils.py: the greedy        *)
(* non-maximum suppression loop, the two mask rasterizers' placement       *)
(* arithmetic, the two postprocessors and the topology check.              *)
(*                                                                         *)
(* Python sequences are modelled as TLA+ sequences, so every index of the  *)
(* model is the Python index plus one.  Real numbers are modelled exactly: *)
(* a threshold or a scale is a fraction [num, den], and a comparison of    *)
(* two fractions is done by cross multiplication.                          *)
(***************************************************************************)
EXTENDS Integers, Sequences, FiniteSets, TLC

\* Box coordinates handed to nms range over 0..MaxCoord; in the calls with
\* MaxBoxes boxes the y coordinates range over 0..MaxRow only.
MaxCoord == 2
MaxRow == 1
\* nms is called with at most MaxBoxes boxes.
MaxBoxes == 3
\* Scores handed to nms range over 1..MaxScore.
MaxScore == 2
\* Frames are 1..MaxFrame pixels high and wide; the boxes handed to
\* segm_postprocess have coordinates in -1..MaxFrame + 1.
MaxFrame == 3
\* The raw masks handed to segm_postprocess are MaskSide x MaskSide.
MaskSide == 2
\* check_model is handed networks with at most MaxInputs inputs.
MaxInputs == 3
\* The prototype-mask rasterizer is handed at most MaxInstances instances, in
\* a frame of YoloFrame x YoloFrame pixels, with a letterbox padding of at
\* most MaxPad pixels.
MaxInstances == 2
YoloFrame == 2
MaxPad == 2
\* The postprocessors are handed at most MaxDetections raw detections of
\* NumClasses classes (the background class not counted), and are called
\* at most MaxCalls times on the same outputs.
MaxDetections == 2
NumClasses == 2
MaxCalls == 2
FrameRows == 1

None == "None"

\* The value of a result variable while its call has not returned.
NotReturned == [exc |-> "not returned"]

VARIABLES
  nmsArgs,    \* the arguments of the running nms call
  areas,      \* nms local `areas`
  order,      \* nms local `order`
  keep,       \* nms local `keep`
  sorted,     \* the value scores.argsort()[::-1] took at line 131
  nmsPc,      \* "call": not entered, "loop": at the while test, "done": returned
  nmsRun,     \* 1: the first call, 2: the call on what the first call kept
  nmsFirst,   \* the first call's arguments and result, once it has returned
  segArgs,    \* the arguments of the segm_postprocess call
  segRet,     \* NotReturned, then the call's locals and its result
  net,        \* the network handed to check_model
  checkRet,   \* NotReturned, then check_model's result
  ysArgs,     \* the arguments of the yolact_segm_postprocess call
  ysRet,      \* NotReturned, then the call's locals and its result
  outputs,    \* the caller's dictionary of raw network outputs
  postArgs,   \* the other arguments of the postprocessor calls
  postRet,    \* NotReturned, then the last postprocessor call's result
  postCalls,  \* the number of postprocessor calls made on `outputs`
  outputs0    \* what `outputs` held before the first call

nmsVars == <<nmsArgs, areas, order, keep, sorted, nmsPc, nmsRun, nmsFirst>>

segVars == <<segArgs, segRet>>

checkVars == <<net, checkRet>>

ysVars == <<ysArgs, ysRet>>

postVars == <<outputs, postArgs, postRet, postCalls, outputs0>>

vars == <<nmsArgs, areas, order, keep, sorted, nmsPc, nmsRun, nmsFirst,
          segArgs, segRet, net, checkRet, ysArgs, ysRet,
          outputs, postArgs, postRet, postCalls, outputs0>>

\* The variables of a function that a specification does not call.
NmsIdle ==
  /\ nmsArgs = None
  /\ areas = <<>>
  /\ order = <<>>
  /\ keep = <<>>
  /\ sorted = <<>>
  /\ nmsPc = "idle"
  /\ nmsRun = 0
  /\ nmsFirst = None

SegmIdle == segArgs = None /\ segRet = NotReturned

CheckIdle == net = None /\ checkRet = NotReturned

YsIdle == ysArgs = None /\ ysRet = NotReturned

PostIdle ==
  /\ outputs = None
  /\ postArgs = None
  /\ postRet = NotReturned
  /\ postCalls = 0
  /\ outputs0 = None

----------------------------------------------------------------------------
\* Helpers

Max(a, b) == IF a >= b THEN a ELSE b

Min(a, b) == IF a <= b THEN a ELSE b

Range(s) == {s[k] : k \in 1..Len(s)}

\* s[idx[1]], s[idx[2]], ...: numpy's s[idx] for an index array idx.
Gather(s, idx) == [k \in 1..Len(idx) |-> s[idx[k]]]

\* The permutations of 1..n, as sequences.
Perms(n) == {p \in [1..n -> 1..n] : \A a, b \in 1..n : a # b => p[a] # p[b]}

----------------------------------------------------------------------------
\* nms

\* A boundary flag that is never honoured.
BndExclusive(include_boundaries) == 0

\* line 128
Bnd(include_boundaries) == IF include_boundaries THEN 1 ELSE 0

\* line 130
Areas(a) ==
  [k \in 1..Len(a.scores) |->
     (a.x2[k] - a.x1[k] + Bnd(a.include_boundaries))
     * (a.y2[k] - a.y1[k] + Bnd(a.include_boundaries))]

\* An argsort whose result is not reversed.
ArgsortAscending(scores) ==
  {p \in Perms(Len(scores)) :
     \A a, b \in 1..Len(scores) : a < b => scores[p[a]] <= scores[p[b]]}

\* line 131: the values scores.argsort()[::-1] can take.  argsort's default
\* kind is not stable, so equal scores may come in either order.
ArgsortDescending(scores) ==
  {p \in Perms(Len(scores)) :
     \A a, b \in 1..Len(scores) : a < b => scores[p[a]] >= scores[p[b]]}

\* lines 133-134: `if keep_top_k` is false for None and for 0.
Truncate(ord, keep_top_k) ==
  IF keep_top_k = None \/ keep_top_k = 0 THEN ord
  ELSE SubSeq(ord, 1, Min(keep_top_k, Len(ord)))

\* lines 142-149
Intersection(a, i, j) ==
  LET b   == Bnd(a.include_boundaries)
      xx1 == Max(a.x1[i], a.x1[j])
      yy1 == Max(a.y1[i], a.y1[j])
      xx2 == Min(a.x2[i], a.x2[j])
      yy2 == Min(a.y2[i], a.y2[j])
      w   == Max(0, xx2 - xx1 + b)
      h   == Max(0, yy2 - yy1 + b)
  IN  w * h

\* A base area that forgets the kept box's own area.
BaseAreaOfCandidateOnly(a, ar, i, j) == ar[j]

\* line 151
BaseArea(a, ar, i, j) == ar[i] + ar[j] - Intersection(a, i, j)

\* A comparison that also drops the boxes whose overlap is exactly thresh.
OverlapBelowThresh(a, ar, i, j) ==
  LET inter == Intersection(a, i, j)
      base  == BaseArea(a, ar, i, j)
  IN  IF base = 0 THEN 0 < a.thresh.num
      ELSE IF base > 0 THEN inter * a.thresh.den < a.thresh.num * base
      ELSE inter * a.thresh.den > a.thresh.num * base

\* lines 153-159: overlap <= thresh, where overlap is intersection / base_area
\* and is left at 0 where base_area is 0.  thresh.den is positive.
OverlapLeqThresh(a, ar, i, j) ==
  LET inter == Intersection(a, i, j)
      base  == BaseArea(a, ar, i, j)
  IN  IF base = 0 THEN 0 <= a.thresh.num
      ELSE IF base > 0 THEN inter * a.thresh.den <= a.thresh.num * base
      ELSE inter * a.thresh.den >= a.thresh.num * base

\* line 159: order[np.where(overlap <= thresh)[0] + 1]
Survivors(a, ar, ord) ==
  LET rest == Tail(ord)
  IN  SelectSeq(rest, LAMBDA j : OverlapLeqThresh(a, ar, ord[1], j))

\* The thresholds tried: 1/10 and 1/2, and 1/7 for a pair of boxes.
Thresholds == {[num |-> 1, den |-> 10], [num |-> 1, den |-> 2]}

PairThresholds == Thresholds \cup {[num |-> 1, den |-> 7]}

\* Well-formed boxes (x1 <= x2, y1 <= y2), zero-width and zero-height ones
\* included, as <<x1, y1, x2, y2>>, with x in 0..mx and y in 0..my.
Boxes(mx, my) ==
  {b \in (0..mx) \X (0..my) \X (0..mx) \X (0..my) :
     b[1] <= b[3] /\ b[2] <= b[4]}

\* The boxes of positive width among them.
WideBoxes(mx, my) == {b \in Boxes(mx, my) : b[1] < b[3]}

\* The boxes of positive width and height among them.
SolidBoxes(mx, my) == {b \in Boxes(mx, my) : b[1] < b[3] /\ b[2] < b[4]}

NmsArgs(bs, sc, t, ib, k) ==
  [x1 |-> [i \in 1..Len(bs) |-> bs[i][1]],
   y1 |-> [i \in 1..Len(bs) |-> bs[i][2]],
   x2 |-> [i \in 1..Len(bs) |-> bs[i][3]],
   y2 |-> [i \in 1..Len(bs) |-> bs[i][4]],
   scores |-> sc, thresh |-> t, include_boundaries |-> ib, keep_top_k |-> k]

NmsStart(ns, bxs, ths) ==
  /\ \E n \in ns :
       \E bs \in [1..n -> bxs], sc \in [1..n -> 1..MaxScore] :
         \E t \in ths, ib \in BOOLEAN :
           nmsArgs = NmsArgs(bs, sc, t, ib, None)
  /\ areas = <<>>
  /\ order = <<>>
  /\ keep = <<>>
  /\ sorted = <<>>
  /\ nmsPc = "call"
  /\ nmsRun = 1
  /\ nmsFirst = None
  /\ SegmIdle
  /\ CheckIdle
  /\ YsIdle
  /\ PostIdle

\* lines 128-136
NmsEnter ==
  /\ nmsPc = "call"
  /\ areas' = Areas(nmsArgs)
  /\ \E ord \in ArgsortDescending(nmsArgs.scores) :
       /\ sorted' = ord
       /\ order' = Truncate(ord, nmsArgs.keep_top_k)
  /\ keep' = <<>>
  /\ nmsPc' = "loop"
  /\ UNCHANGED <<nmsArgs, nmsRun, nmsFirst, segVars, checkVars, ysVars, postVars>>

\* lines 138-159: one pass of the while loop
NmsIterate ==
  /\ nmsPc = "loop"
  /\ Len(order) > 0
  /\ keep' = Append(keep, order[1])
  /\ order' = Survivors(nmsArgs, areas, order)
  /\ UNCHANGED <<nmsArgs, areas, sorted, nmsPc, nmsRun, nmsFirst, segVars, checkVars, ysVars, postVars>>

\* lines 138, 161
NmsReturn ==
  /\ nmsPc = "loop"
  /\ Len(order) = 0
  /\ nmsPc' = "done"
  /\ UNCHANGED <<nmsArgs, areas, order, keep, sorted, nmsRun, nmsFirst, segVars, checkVars, ysVars, postVars>>

\* A caller runs nms again on exactly what the first call kept.
NmsAgain ==
  /\ nmsPc = "done"
  /\ nmsRun = 1
  /\ nmsFirst' = [args |-> nmsArgs, keep |-> keep, sorted |-> sorted]
  /\ nmsArgs' = [nmsArgs EXCEPT !.x1 = Gather(nmsArgs.x1, keep),
                                !.y1 = Gather(nmsArgs.y1, keep),
                                !.x2 = Gather(nmsArgs.x2, keep),
                                !.y2 = Gather(nmsArgs.y2, keep),
                                !.scores = Gather(nmsArgs.scores, keep)]
  /\ nmsRun' = 2
  /\ nmsPc' = "call"
  /\ areas' = <<>>
  /\ order' = <<>>
  /\ keep' = <<>>
  /\ sorted' = <<>>
  /\ UNCHANGED <<segVars, checkVars, ysVars, postVars>>

NmsNext == NmsEnter \/ NmsIterate \/ NmsReturn \/ NmsAgain

\* Calls with up to MaxBoxes boxes of positive width.
NmsInit == NmsStart(0..MaxBoxes, WideBoxes(MaxCoord, MaxRow), Thresholds)

SpecNms == NmsInit /\ [][NmsNext]_vars

\* Calls with two boxes anywhere on the square grid.
NmsPairInit == NmsStart({2}, Boxes(MaxCoord, MaxCoord), PairThresholds)

SpecNmsPair == NmsPairInit /\ [][NmsNext]_vars

----------------------------------------------------------------------------
\* Properties of nms

\* The overlap ratio of boxes i and j of call a, from the boxes alone: the
\* area the two have in common over the area they cover together.
ExtentX(a, k) == a.x2[k] - a.x1[k] + (IF a.include_boundaries THEN 1 ELSE 0)

ExtentY(a, k) == a.y2[k] - a.y1[k] + (IF a.include_boundaries THEN 1 ELSE 0)

CommonArea(a, i, j) ==
  LET e  == IF a.include_boundaries THEN 1 ELSE 0
      cw == Min(a.x2[i], a.x2[j]) - Max(a.x1[i], a.x1[j]) + e
      ch == Min(a.y2[i], a.y2[j]) - Max(a.y1[i], a.y1[j]) + e
  IN  IF cw > 0 /\ ch > 0 THEN cw * ch ELSE 0

CoveredArea(a, i, j) ==
  ExtentX(a, i) * ExtentY(a, i) + ExtentX(a, j) * ExtentY(a, j) - CommonArea(a, i, j)

\* ratio > thresh, = thresh; a pair covering no area has ratio 0.
RatioAbove(a, i, j) ==
  /\ CoveredArea(a, i, j) # 0
  /\ CommonArea(a, i, j) * a.thresh.den > a.thresh.num * CoveredArea(a, i, j)

RatioIsThresh(a, i, j) ==
  /\ CoveredArea(a, i, j) # 0
  /\ CommonArea(a, i, j) * a.thresh.den = a.thresh.num * CoveredArea(a, i, j)

FirstCallDone == nmsPc = "done" /\ nmsRun = 1

\* C5: when nms (keep_top_k unset) returns, keep lists boxes in the order of
\* the descending-score sort, and a box is kept if and only if its overlap
\* ratio with every box kept before it is <= thresh; so no two kept boxes
\* overlap by more than thresh, every dropped box overlaps a kept box before
\* it by more than thresh, and an overlap of exactly thresh suppresses nothing.
C5_GreedySuppression ==
  FirstCallDone /\ nmsArgs.keep_top_k = None =>
    LET n    == Len(sorted)
        kept == Range(keep)
        pos  == [i \in Range(sorted) |-> CHOOSE p \in 1..n : sorted[p] = i]
    IN  /\ n = Len(nmsArgs.scores)
        /\ kept \subseteq Range(sorted)
        /\ \A p, q \in 1..Len(keep) : p < q => pos[keep[p]] < pos[keep[q]]
        /\ \A p \in 1..n :
             sorted[p] \in kept <=>
               \A q \in 1..(p - 1) :
                 sorted[q] \in kept => ~RatioAbove(nmsArgs, sorted[q], sorted[p])
        /\ \A i, j \in kept : i # j => ~RatioAbove(nmsArgs, i, j)
        /\ \A p \in 1..n :
             sorted[p] \notin kept =>
               \E q \in 1..(p - 1) :
                 sorted[q] \in kept /\ RatioAbove(nmsArgs, sorted[q], sorted[p])

\* Three boxes, of which one is dropped and one is kept although it overlaps
\* an earlier kept box by exactly thresh.
C5_Witness ==
  /\ FirstCallDone
  /\ Len(sorted) = 3
  /\ Len(keep) = 2
  /\ RatioIsThresh(nmsArgs, keep[1], keep[2])

\* C6: nms run again on exactly the boxes and scores a first call kept, with
\* the same thresh and include_boundaries, keeps every one of them.
C6_Idempotent ==
  nmsPc = "done" /\ nmsRun = 2 =>
    /\ Len(nmsArgs.scores) = Len(nmsFirst.keep)
    /\ Len(keep) = Len(nmsArgs.scores)
    /\ Range(keep) = 1..Len(nmsArgs.scores)

\* The second call has returned, on two of the first call's three boxes.
C6_Witness ==
  /\ nmsPc = "done"
  /\ nmsRun = 2
  /\ Len(nmsFirst.args.scores) = 3
  /\ Len(keep) = 2

\* The unit boxes [0,0,1,1] and [1,1,2,2].
CornerBoxes ==
  /\ nmsArgs.x1 = <<0, 1>>
  /\ nmsArgs.y1 = <<0, 1>>
  /\ nmsArgs.x2 = <<1, 2>>
  /\ nmsArgs.y2 = <<1, 2>>

\* C7 as stated: with include_boundaries=True both corner-touching unit boxes
\* are kept for any thresh < 1.
C7_AsStated ==
  FirstCallDone /\ CornerBoxes /\ nmsArgs.include_boundaries => Len(keep) = 2

\* C7 as amended: with include_boundaries=True the two boxes share one pixel
\* of the 7 they cover, so both are kept exactly when thresh >= 1/7; with
\* include_boundaries=False they share no area and both are kept.
C7_CornerBoxes ==
  FirstCallDone /\ CornerBoxes =>
    IF nmsArgs.include_boundaries
    THEN /\ Intersection(nmsArgs, 1, 2) = 1
         /\ BaseArea(nmsArgs, areas, 1, 2) = 7
         /\ Len(keep) = 2 <=> 7 * nmsArgs.thresh.num >= nmsArgs.thresh.den
    ELSE /\ Intersection(nmsArgs, 1, 2) = 0
         /\ Len(keep) = 2

\* The corner boxes, inclusive boundaries, thresh exactly 1/7: both kept.
C7_Witness ==
  /\ FirstCallDone
  /\ CornerBoxes
  /\ nmsArgs.include_boundaries
  /\ nmsArgs.thresh = [num |-> 1, den |-> 7]
  /\ Len(keep) = 2

\* Two boxes with the same coordinates.
IdenticalPair ==
  /\ Len(nmsArgs.scores) = 2
  /\ nmsArgs.x1[1] = nmsArgs.x1[2]
  /\ nmsArgs.y1[1] = nmsArgs.y1[2]
  /\ nmsArgs.x2[1] = nmsArgs.x2[2]
  /\ nmsArgs.y2[1] = nmsArgs.y2[2]

\* C8 as stated: of two identical boxes (zero-width and zero-height ones
\* included) exactly one is kept, and the one of lower index is suppressed.
C8_AsStated ==
  FirstCallDone /\ IdenticalPair => keep = <<2>>

\* C8 as amended: two identical boxes whose area under the convention in use
\* is not zero have overlap ratio exactly 1, and exactly one is kept: the one
\* that comes first in the descending-score sort, whose score is not the
\* lower one, whatever its index.  Two identical boxes of zero area have
\* overlap 0 and are both kept.
C8_IdenticalPair ==
  FirstCallDone /\ IdenticalPair =>
    IF ExtentX(nmsArgs, 1) * ExtentY(nmsArgs, 1) # 0
    THEN /\ Intersection(nmsArgs, 1, 2) = BaseArea(nmsArgs, areas, 1, 2)
         /\ keep = <<sorted[1]>>
         /\ nmsArgs.scores[keep[1]] >= nmsArgs.scores[sorted[2]]
    ELSE Len(keep) = 2

\* Two identical boxes of positive area, the first with the higher score: the
\* first is kept and the second, of higher index, is suppressed.
C8_Witness ==
  /\ FirstCallDone
  /\ IdenticalPair
  /\ ExtentX(nmsArgs, 1) * ExtentY(nmsArgs, 1) # 0
  /\ nmsArgs.scores[1] > nmsArgs.scores[2]
  /\ keep = <<1>>

----------------------------------------------------------------------------
\* Arrays and slices

\* np.clip(a, a_min, a_max)
Clip(a, a_min, a_max) == Min(Max(a, a_min), a_max)

\* The indices the slice start:stop selects in an axis of length n, in order:
\* a negative bound counts from the end, and both are cut to 0..n.
PySlice(start, stop, n) ==
  LET lo == IF start < 0 THEN Max(start + n, 0) ELSE Min(start, n)
      hi == IF stop < 0 THEN Max(stop + n, 0) ELSE Min(stop, n)
  IN  [k \in 1..Max(hi - lo, 0) |-> lo + k - 1]

\* Whether numpy can assign a block of s_rows x s_cols values to a block of
\* d_rows x d_cols cells: each source extent is the target's, or is 1.
CanAssign(d_rows, d_cols, s_rows, s_cols) ==
  /\ Len(s_rows) = Len(d_rows) \/ Len(s_rows) = 1
  /\ Len(s_cols) = Len(d_cols) \/ Len(s_cols) = 1

\* The frame-sized array of zeros with cell (d_rows[k], d_cols[l]) set to the
\* value of cell (s_rows[k], s_cols[l]) of array src, a single source row or
\* column being repeated.  A cell of the result is 0 or names the cell of src
\* whose value it holds.  Arrays are indexed from 0, as in Python.
Assigned(im_h, im_w, d_rows, d_cols, src, s_rows, s_cols) ==
  [c \in (0..(im_h - 1)) \X (0..(im_w - 1)) |->
     IF c[1] \in Range(d_rows) /\ c[2] \in Range(d_cols)
     THEN LET k == c[1] - d_rows[1] + 1
              l == c[2] - d_cols[1] + 1
          IN  [of |-> src,
               row |-> IF Len(s_rows) = 1 THEN s_rows[1] ELSE s_rows[k],
               col |-> IF Len(s_cols) = 1 THEN s_cols[1] ELSE s_cols[l]]
     ELSE 0]

----------------------------------------------------------------------------
\* expand_box and segm_postprocess

\* lines 24-36, for a scale num/den: the four coordinates as fractions.
\* box_exp[0] = x_c - w_half * scale = ((x1 + x2) den - (x2 - x1) num) / (2 den)
ExpandBox(box, scale) ==
  LET lo(a, b) == [num |-> (a + b) * scale.den - (b - a) * scale.num,
                   den |-> 2 * scale.den]
      hi(a, b) == [num |-> (a + b) * scale.den + (b - a) * scale.num,
                   den |-> 2 * scale.den]
  IN  <<lo(box[1], box[3]), lo(box[2], box[4]),
        hi(box[1], box[3]), hi(box[2], box[4])>>

\* .astype(int) of a fraction with a positive denominator: towards zero.
AsInt(f) == IF f.num >= 0 THEN f.num \div f.den ELSE -((-f.num) \div f.den)

\* line 42, for a raw mask of m rows: after the padding shape[0] is m + 2.
ExtendedBox(box, m) ==
  LET e == ExpandBox(box, [num |-> m + 2, den |-> m])
  IN  [k \in 1..4 |-> AsInt(e[k])]

\* A size that forgets the + 1.
ResizedSizeOneShort(ext) ==
  [w |-> Max(ext[3] - ext[1], 1), h |-> Max(ext[4] - ext[2], 1)]

\* line 43
ResizedSize(ext) ==
  [w |-> Max(ext[3] - ext[1] + 1, 1), h |-> Max(ext[4] - ext[2] + 1, 1)]

\* lines 39-53.  raw names the raw mask; the resized, thresholded mask of
\* line 47 has size.h rows and size.w columns.  The result holds the locals
\* and either the frame-sized mask or the exception of the assignment.
SegmPostprocess(box, raw, m, im_h, im_w) ==
  LET ext    == ExtendedBox(box, m)
      size   == ResizedSize(ext)
      x0     == Clip(ext[1], 0, im_w)
      y0     == Clip(ext[2], 0, im_h)
      x1     == Clip(ext[3] + 1, 0, im_w)
      y1     == Clip(ext[4] + 1, 0, im_h)
      d_rows == PySlice(y0, y1, im_h)
      d_cols == PySlice(x0, x1, im_w)
      s_rows == PySlice(y0 - ext[2], y1 - ext[2], size.h)
      s_cols == PySlice(x0 - ext[1], x1 - ext[1], size.w)
      ok     == CanAssign(d_rows, d_cols, s_rows, s_cols)
  IN  [extended_box |-> ext, w |-> size.w, h |-> size.h,
       x0 |-> x0, y0 |-> y0, x1 |-> x1, y1 |-> y1,
       target |-> <<Len(d_rows), Len(d_cols)>>,
       source |-> <<Len(s_rows), Len(s_cols)>>,
       exc |-> IF ok THEN None ELSE "ValueError",
       im_mask |-> IF ok
                   THEN Assigned(im_h, im_w, d_rows, d_cols, raw, s_rows, s_cols)
                   ELSE None]

\* Boxes with coordinates a little outside the frame, inverted ones included.
SegmBoxes == LET c == (-1)..(MaxFrame + 1) IN c \X c \X c \X c

SegmInit ==
  /\ \E box \in SegmBoxes, im_h \in 1..MaxFrame, im_w \in 1..MaxFrame :
       segArgs = [box |-> box, raw_cls_mask |-> "raw_cls_mask", m |-> MaskSide,
                  im_h |-> im_h, im_w |-> im_w]
  /\ segRet = NotReturned
  /\ NmsIdle
  /\ CheckIdle
  /\ YsIdle
  /\ PostIdle

SegmCall ==
  /\ segRet = NotReturned
  /\ segRet' = SegmPostprocess(segArgs.box, segArgs.raw_cls_mask, segArgs.m,
                               segArgs.im_h, segArgs.im_w)
  /\ UNCHANGED <<segArgs, nmsVars, checkVars, ysVars, postVars>>

SegmNext == SegmCall

SpecSegm == SegmInit /\ [][SegmNext]_vars

----------------------------------------------------------------------------
\* Properties of segm_postprocess

\* C10: for every box and frame size the source region of the resized mask
\* and the target window of the canvas have the same shape and lie within
\* their arrays, so the copy succeeds; the mask returned is zero outside the
\* clipped window [x0, x1) x [y0, y1) and inside it holds the resized mask's
\* value at (y - extended_box.y1, x - extended_box.x1).
C10_Placement ==
  segRet # NotReturned =>
    LET ext == segRet.extended_box
        w   == IF ext[3] - ext[1] + 1 > 1 THEN ext[3] - ext[1] + 1 ELSE 1
        h   == IF ext[4] - ext[2] + 1 > 1 THEN ext[4] - ext[2] + 1 ELSE 1
        x0  == Clip(ext[1], 0, segArgs.im_w)
        y0  == Clip(ext[2], 0, segArgs.im_h)
        x1  == Clip(ext[3] + 1, 0, segArgs.im_w)
        y1  == Clip(ext[4] + 1, 0, segArgs.im_h)
    IN  /\ segRet.exc = None
        /\ segRet.source = segRet.target
        /\ segRet.target = <<Max(y1 - y0, 0), Max(x1 - x0, 0)>>
        /\ DOMAIN segRet.im_mask =
             (0..(segArgs.im_h - 1)) \X (0..(segArgs.im_w - 1))
        /\ \A c \in DOMAIN segRet.im_mask :
             IF y0 <= c[1] /\ c[1] < y1 /\ x0 <= c[2] /\ c[2] < x1
             THEN /\ segRet.im_mask[c] = [of |-> segArgs.raw_cls_mask,
                                          row |-> c[1] - ext[2],
                                          col |-> c[2] - ext[1]]
                  /\ c[1] - ext[2] \in 0..(h - 1)
                  /\ c[2] - ext[1] \in 0..(w - 1)
             ELSE segRet.im_mask[c] = 0

\* A box that sticks out of the frame on the left and on the right: the
\* window is the frame's whole width and starts inside the resized mask.
C10_Witness ==
  /\ segRet # NotReturned
  /\ segRet.exc = None
  /\ segRet.extended_box[1] < 0
  /\ segRet.extended_box[3] + 1 > segArgs.im_w
  /\ segRet.target[1] > 0
  /\ segRet.target[2] = segArgs.im_w
  /\ segArgs.im_w > 1

----------------------------------------------------------------------------
\* check_model

\* lines 233-236
MODEL_ATTRIBUTES ==
  [mask_rcnn |-> [required_outputs |-> {"boxes", "scores", "classes", "raw_masks"},
                  postprocessor |-> "mask_rcnn_postprocess"],
   yolact    |-> [required_outputs |-> {"boxes", "conf", "proto", "mask"},
                  postprocessor |-> "yolact_postprocess"]]

\* Python's truth value of a tuple: whether it has an element.
Truthy(tuple) == Len(tuple) # 0

\* line 242: the names of the inputs whose shape has 4 dimensions, in the
\* dict's order
ImageInputs(input_info) ==
  LET hits == SelectSeq([k \in 1..Len(input_info) |-> k],
                        LAMBDA k : Len(input_info[k].shape) = 4)
  IN  [k \in 1..Len(hits) |-> input_info[hits[k]].name]

\* lines 247-250: the names of the inputs whose shape is [_, 3]
ImageInfoInputs(input_info) ==
  LET hits == SelectSeq([k \in 1..Len(input_info) |-> k],
                        LAMBDA k : /\ Len(input_info[k].shape) = 2
                                   /\ input_info[k].shape[2] = 3)
  IN  [k \in 1..Len(hits) |-> input_info[hits[k]].name]

ShapeOf(input_info, name) ==
  (CHOOSE i \in Range(input_info) : i.name = name).shape

AssertionError == [exc |-> "AssertionError"]

\* lines 239-264.  The assert of lines 255-259 is handed one parenthesised
\* tuple (the test, the message), so what it tests is the tuple's truth value.
CheckModel(n) ==
  LET num_inputs  == Len(n.input_info)
      image_input == ImageInputs(n.input_info)
      info_input  == ImageInfoInputs(n.input_info)
  IN  IF ~(num_inputs <= 2) THEN AssertionError
      ELSE IF ~(Len(image_input) = 1) THEN AssertionError
      ELSE IF num_inputs = 2 /\ ~(Len(info_input) = 1) THEN AssertionError
      ELSE
        LET image_info_input == IF num_inputs = 2 THEN info_input[1] ELSE None
            model_type  == IF image_info_input # None THEN "mask_rcnn" ELSE "yolact"
            attributes  == MODEL_ATTRIBUTES[model_type]
            input_shape == ShapeOf(n.input_info, image_input[1])
        IN  IF ~Truthy(<<attributes.required_outputs \subseteq n.outputs,
                         "Demo supports only topologies with the following output keys">>)
            THEN AssertionError
            ELSE IF ~(input_shape[1] = 1) THEN AssertionError
            ELSE [exc |-> None,
                  image_input |-> image_input[1],
                  image_info_input |-> image_info_input,
                  input_shape |-> input_shape,
                  postprocessor |-> attributes.postprocessor]

\* Input shapes: an image of batch 1, an image of batch 2, an image-info
\* input, a 2-D input that is not one, and a 1-D input.
Shapes == {<<1, 3, 2, 2>>, <<2, 3, 2, 2>>, <<1, 3>>, <<1, 4>>, <<3>>}

OutputNames == {"boxes", "scores", "classes", "raw_masks", "conf", "proto", "mask"}

CheckInit ==
  /\ \E n \in 0..MaxInputs :
       \E shapes \in [1..n -> Shapes], outs \in SUBSET OutputNames :
         net = [input_info |-> [k \in 1..n |-> [name |-> ToString(k),
                                                 shape |-> shapes[k]]],
                outputs |-> outs]
  /\ checkRet = NotReturned
  /\ NmsIdle
  /\ SegmIdle
  /\ YsIdle
  /\ PostIdle

CheckCall ==
  /\ checkRet = NotReturned
  /\ checkRet' = CheckModel(net)
  /\ UNCHANGED <<net, nmsVars, segVars, ysVars, postVars>>

CheckNext == CheckCall

SpecCheck == CheckInit /\ [][CheckNext]_vars

----------------------------------------------------------------------------
\* Properties of check_model

\* C3: check_model returns a postprocessor only when every output the
\* selected variant requires is among the network's outputs; it raises for
\* every topology that lacks one.
C3_AsStated ==
  checkRet # NotReturned /\ checkRet.exc = None =>
    /\ checkRet.postprocessor = "mask_rcnn_postprocess" =>
         {"boxes", "scores", "classes", "raw_masks"} \subseteq net.outputs
    /\ checkRet.postprocessor = "yolact_postprocess" =>
         {"boxes", "conf", "proto", "mask"} \subseteq net.outputs

----------------------------------------------------------------------------
\* sanitize_coordinates and yolact_segm_postprocess
\*
\* The frame has img_size pixels along an axis.  A normalised coordinate c is
\* held as the integer c * img_size * Half, its position in units of 1/Half
\* pixel, and a shift s as the integer s * img_size, so that
\* (c + s / 2) * img_size is (held(c) + held(s)) / Half pixels.

\* The 2 of `shift / 2`, line 165.
Half == 2

\* lines 164-170, in units of 1/Half pixel
SanitizeCoordinates(_x1, _x2, img_size, shift, padding) ==
  <<Clip(_x1 + shift - padding * Half, 0, img_size * Half),
    Clip(_x2 + shift + padding * Half, 0, img_size * Half)>>

\* np.ceil(...).astype(int) of v / Half pixels
Ceil(v) == -((-v) \div Half)

\* lines 87-88, held as shift * frame: input - frame * scale, for a scale
\* num/den that divides the frame.
Shift(input, frame, scale) == input - (frame * scale.num) \div scale.den

\* lines 212-227 for one instance: box is the instance's row of `boxes`, src
\* names its resized, thresholded mask (h rows, w columns).
Composite(box, src, w, h, shift_x, shift_y) ==
  LET nx     == SanitizeCoordinates(box[1], box[3], w, 0, 0)
      ny     == SanitizeCoordinates(box[2], box[4], h, 0, 0)
      x1     == Ceil(nx[1])
      x2     == Ceil(nx[2])
      y1     == Ceil(ny[1])
      y2     == Ceil(ny[2])
      sx     == SanitizeCoordinates(box[1], box[3], w, shift_x, 0)
      sy     == SanitizeCoordinates(box[2], box[4], h, shift_y, 0)
      b_x1   == Ceil(sx[1])
      b_x2   == Ceil(sx[2])
      b_y1   == Ceil(sy[1])
      b_y2   == Ceil(sy[2])
      height == Max(b_y2 - b_y1, y2 - y1)
      width  == Max(b_x2 - b_x1, x2 - x1)
      d_rows == PySlice(b_y1, b_y1 + height, h)
      d_cols == PySlice(b_x1, b_x1 + width, w)
      s_rows == PySlice(y1, y1 + height, h)
      s_cols == PySlice(x1, x1 + width, w)
      ok     == CanAssign(d_rows, d_cols, s_rows, s_cols)
  IN  [box |-> <<sx[1], sy[1], sx[2], sy[2]>>,
       x1 |-> x1, y1 |-> y1, x2 |-> x2, y2 |-> y2,
       b_x1 |-> b_x1, b_y1 |-> b_y1, b_x2 |-> b_x2, b_y2 |-> b_y2,
       height |-> height, width |-> width,
       target |-> <<Len(d_rows), Len(d_cols)>>,
       source |-> <<Len(s_rows), Len(s_cols)>>,
       exc |-> IF ok THEN None ELSE "ValueError",
       im_mask |-> IF ok THEN Assigned(h, w, d_rows, d_cols, src, s_rows, s_cols)
                   ELSE None]

\* lines 173-230.  The values of the instance masks (the product with the
\* prototypes, the logistic function, crop_mask and the resize of lines
\* 207-211 and 219-220) are not modelled: a mask is named by the row of
\* mask coefficients it is computed from.  The result holds the returned
\* value, the per-instance locals, the exception if an assignment of lines
\* 225-227 raised, and what the caller's `boxes` array holds afterwards.
YolactSegmPostprocess(boxes, masks, score, classes, w, h, score_threshold, shift_x, shift_y) ==
  LET all  == [k \in 1..Len(score) |-> k]
      kept == IF score_threshold > 0
              THEN SelectSeq(all, LAMBDA k : score[k] > score_threshold)
              ELSE all
  IN  IF score_threshold > 0 /\ Len(kept) = 0
      THEN [exc |-> None, value |-> <<>>, instances |-> <<>>, boxes |-> boxes]
      ELSE
        LET inst == [k \in 1..Len(kept) |->
                       Composite(boxes[kept[k]], masks[kept[k]], w, h,
                                 shift_x, shift_y)]
            \* lines 214-215 write to `boxes`, which is the caller's array
            \* unless line 200 replaced it by a copy
            written == IF score_threshold > 0 THEN boxes
                       ELSE [k \in 1..Len(inst) |-> inst[k].box]
        IN  IF \E k \in 1..Len(inst) : inst[k].exc # None
            THEN [exc |-> "ValueError", value |-> <<>>, instances |-> inst,
                  boxes |-> written]
            ELSE [exc |-> None,
                  value |-> <<[k \in 1..Len(inst) |-> inst[k].box],
                              Gather(score, kept),
                              Gather(classes, kept),
                              [k \in 1..Len(inst) |-> inst[k].im_mask]>>,
                  instances |-> inst,
                  boxes |-> written]

\* Boxes of positive width and height in the frame, in units of 1/Half pixel.
YoloBoxes == SolidBoxes(YoloFrame * Half, YoloFrame * Half)

YsInit ==
  /\ \E n \in 1..MaxInstances :
       \E bs \in [1..n -> YoloBoxes] :
         \E input_width, input_height \in YoloFrame..(YoloFrame + MaxPad) :
           ysArgs = [boxes |-> bs,
                     masks |-> [k \in 1..n |-> <<"mask", k>>],
                     score |-> [k \in 1..n |-> MaxScore],
                     classes |-> [k \in 1..n |-> 1],
                     w |-> YoloFrame, h |-> YoloFrame,
                     score_threshold |-> 0,
                     shift_x |-> Shift(input_width, YoloFrame, [num |-> 1, den |-> 1]),
                     shift_y |-> Shift(input_height, YoloFrame, [num |-> 1, den |-> 1])]
  /\ ysRet = NotReturned
  /\ NmsIdle
  /\ SegmIdle
  /\ CheckIdle
  /\ PostIdle

YsCall ==
  /\ ysRet = NotReturned
  /\ ysRet' = YolactSegmPostprocess(ysArgs.boxes, ysArgs.masks, ysArgs.score,
                                    ysArgs.classes, ysArgs.w, ysArgs.h,
                                    ysArgs.score_threshold,
                                    ysArgs.shift_x, ysArgs.shift_y)
  /\ ysArgs' = [ysArgs EXCEPT !.boxes = ysRet'.boxes]
  /\ UNCHANGED <<nmsVars, segVars, checkVars, postVars>>

YsNext == YsCall

SpecYolactSegm == YsInit /\ [][YsNext]_vars

----------------------------------------------------------------------------
\* Properties of yolact_segm_postprocess

\* C9: for every instance, box and shift the target slice and the source
\* slice of the composite step have the same shape, so the copy never fails
\* with a shape mismatch.  (The claim goes on to place the block at the
\* no-shift window; the slices' shapes already refute it.)
C9_AsStated ==
  ysRet # NotReturned =>
    /\ ysRet.exc = None
    /\ \A k \in 1..Len(ysRet.instances) :
         ysRet.instances[k].source = ysRet.instances[k].target

----------------------------------------------------------------------------
\* mask_rcnn_postprocess

\* v / scale for a scale num/den; exact for the scales tried, whose num is 1.
DivideBy(v, scale) == (v * scale.den) \div scale.num

\* lines 60-61: columns 0 and 2 by scale_x, columns 1 and 3 by scale_y
Rescaled(boxes, scale_x, scale_y) ==
  [n \in 1..Len(boxes) |->
     <<DivideBy(boxes[n][1], scale_x), DivideBy(boxes[n][2], scale_y),
       DivideBy(boxes[n][3], scale_x), DivideBy(boxes[n][4], scale_y)>>]

\* line 63: .astype(np.uint32).  The class ids are whole, non-negative floats
\* below 2^32, and the conversion keeps the value of each.
AsUint32(c) == c

\* A filter that also passes the scores equal to the threshold.
DetectionsFilterAtLeast(scores, conf_threshold) ==
  SelectSeq([n \in 1..Len(scores) |-> n], LAMBDA n : scores[n] >= conf_threshold)

\* line 70, as the indices the boolean mask selects
DetectionsFilter(scores, conf_threshold) ==
  SelectSeq([n \in 1..Len(scores) |-> n], LAMBDA n : scores[n] > conf_threshold)

\* lines 56-75.  The result holds what the caller's dictionary holds after
\* the call (line 59 binds `boxes` to the caller's array, and lines 60-61
\* divide it in place) and the value returned or the exception raised.
MaskRcnnPostprocess(outs, a) ==
  LET boxes   == Rescaled(outs.boxes, a.scale_x, a.scale_y)
      scores  == outs.scores
      classes == [n \in 1..Len(outs.classes) |-> AsUint32(outs.classes[n])]
      after   == [outs EXCEPT !.boxes = boxes]
      segm    == [n \in 1..Len(boxes) |->
                    SegmPostprocess(boxes[n], <<"raw_masks", n, classes[n]>>,
                                    outs.raw_masks.m, a.frame_height, a.frame_width)]
      filter  == DetectionsFilter(scores, a.conf_threshold)
  IN  IF \E n \in 1..Len(boxes) : classes[n] >= outs.raw_masks.channels
      THEN [outputs |-> after, ret |-> [exc |-> "IndexError"]]
      ELSE IF \E n \in 1..Len(boxes) : segm[n].exc # None
      THEN [outputs |-> after, ret |-> [exc |-> "ValueError"]]
      ELSE [outputs |-> after,
            ret |-> [exc |-> None,
                     scores |-> Gather(scores, filter),
                     classes |-> Gather(classes, filter),
                     boxes |-> Gather(boxes, filter),
                     masks |-> [k \in 1..Len(filter) |-> segm[filter[k]].im_mask]]]

----------------------------------------------------------------------------
\* yolact_postprocess

\* lines 136-161: the while loop from `order` on
RECURSIVE NmsLoop(_, _, _, _)
NmsLoop(a, ar, ord, kept) ==
  IF Len(ord) = 0 THEN kept
  ELSE NmsLoop(a, ar, Survivors(a, ar, ord), Append(kept, ord[1]))

\* lines 127-161: the values nms can return, one for each order of the sort
Nms(a) ==
  {NmsLoop(a, Areas(a), Truncate(ord, a.keep_top_k), <<>>) :
     ord \in ArgsortDescending(a.scores)}

\* lines 91-106 for class cls: the (index, class, score) triples the class
\* adds to idx_lst, cls_lst and scr_lst, in each way nms can order them; no
\* triple when line 99 skips the class.  The background class is conf[n][1].
\* nms gets the sanitized coordinates in units of 1/Half pixel, which leaves
\* its overlap ratios as they are for include_boundaries=False.
ClassDetections(outs, a, cls) ==
  LET cls_scores == [n \in 1..Len(outs.conf) |-> outs.conf[n][cls + 1]]
      idx        == DetectionsFilter(cls_scores, a.conf_threshold)
      xs         == [k \in 1..Len(idx) |->
                       SanitizeCoordinates(outs.boxes[idx[k]][1], outs.boxes[idx[k]][3],
                                           a.frame_width, 0, 0)]
      ys         == [k \in 1..Len(idx) |->
                       SanitizeCoordinates(outs.boxes[idx[k]][2], outs.boxes[idx[k]][4],
                                           a.frame_height, 0, 0)]
      call       == [x1 |-> [k \in 1..Len(idx) |-> xs[k][1]],
                     y1 |-> [k \in 1..Len(idx) |-> ys[k][1]],
                     x2 |-> [k \in 1..Len(idx) |-> xs[k][2]],
                     y2 |-> [k \in 1..Len(idx) |-> ys[k][2]],
                     scores |-> Gather(cls_scores, idx),
                     thresh |-> [num |-> 1, den |-> 2],
                     include_boundaries |-> FALSE,
                     keep_top_k |-> None]
  IN  IF Len(idx) = 0 THEN {<<>>}
      ELSE {[k \in 1..Len(kept) |->
               [idx |-> idx[kept[k]], cls |-> cls, score |-> call.scores[kept[k]]]] :
              kept \in Nms(call)}

\* lines 90-106: what the three lists hold, concatenated, after the classes
\* 1..cls.  Every array appended is non-empty.
RECURSIVE Collected(_, _, _)
Collected(outs, a, cls) ==
  IF cls = 0 THEN {<<>>}
  ELSE {before \o part : before \in Collected(outs, a, cls - 1),
                         part \in ClassDetections(outs, a, cls)}

\* lines 78-124: the results the call can have.  np.concatenate raises for an
\* empty list of arrays.  `boxes[idx]` and `masks[idx]` of lines 118-119 are
\* copies, so the caller's arrays are not written.
YolactPostprocess(outs, a) ==
  LET shift_x == Shift(a.input_width, a.frame_width, a.scale_x)
      shift_y == Shift(a.input_height, a.frame_height, a.scale_y)
      Finish(found) ==
        LET boxes == [k \in 1..Len(found) |-> outs.boxes[found[k].idx]]
            masks == [k \in 1..Len(found) |-> outs.mask[found[k].idx]]
            score == [k \in 1..Len(found) |-> found[k].score]
            cls   == [k \in 1..Len(found) |-> found[k].cls]
            segm  == YolactSegmPostprocess(boxes, masks, score, cls,
                                           a.frame_width, a.frame_height, 0,
                                           shift_x, shift_y)
        IN  IF ~(Len(boxes) > 0)
            THEN [exc |-> None, scores |-> score, classes |-> cls,
                  boxes |-> boxes, masks |-> masks]
            ELSE IF segm.exc # None THEN [exc |-> segm.exc]
            ELSE IF Len(segm.value) # 4 THEN [exc |-> "ValueError"]
            ELSE [exc |-> None, scores |-> segm.value[2], classes |-> segm.value[3],
                  boxes |-> segm.value[1], masks |-> segm.value[4]]
      Sorted(found) ==
        {Gather(found, idx2) :
           idx2 \in ArgsortDescending([k \in 1..Len(found) |-> found[k].score])}
  IN  UNION {IF Len(found) = 0 THEN {[exc |-> "ValueError"]}
             ELSE {Finish(f) : f \in Sorted(found)} :
               found \in Collected(outs, a, outs.num_classes - 1)}

----------------------------------------------------------------------------
\* Calls of the postprocessors

Scales == {[num |-> 1, den |-> 1], [num |-> 1, den |-> 2]}

\* The arguments tried: the scales that divide the frame, and a model input
\* at least as large as the frame.
PostArgs ==
  {[scale_x |-> sx, scale_y |-> sy,
    frame_height |-> FrameRows, frame_width |-> YoloFrame,
    input_height |-> ih, input_width |-> iw, conf_threshold |-> t] :
     sx \in {sc \in Scales : (YoloFrame * sc.num) % sc.den = 0},
     sy \in {sc \in Scales : (FrameRows * sc.num) % sc.den = 0},
     ih \in FrameRows..(FrameRows + 1), iw \in YoloFrame..(YoloFrame + 1),
     t \in 1..MaxScore}

\* Region-proposal outputs: boxes in model-input pixels, class ids, scores.
MaskRcnnOutputs ==
  UNION {{[kind |-> "mask_rcnn", boxes |-> bs, scores |-> sc, classes |-> cl,
           raw_masks |-> [n |-> n, channels |-> NumClasses, m |-> MaskSide]] :
            bs \in [1..n -> WideBoxes(1, 1)], sc \in [1..n -> 1..MaxScore],
            cl \in [1..n -> 0..(NumClasses - 1)]} :
         n \in 0..MaxDetections}

\* Prototype-mask outputs: boxes with corners on the frame's pixel corners, in
\* units of 1/Half pixel; conf[n] lists detection n's scores, the background's
\* first.
YolactOutputs ==
  UNION {{[kind |-> "yolact", boxes |-> bs,
           conf |-> [k \in 1..n |-> <<1>> \o cf[k]],
           mask |-> [k \in 1..n |-> <<"mask", k>>],
           proto |-> "proto", num_classes |-> NumClasses + 1] :
            bs \in [1..n -> {b \in SolidBoxes(YoloFrame * Half, FrameRows * Half) :
                               \A i \in 1..4 : b[i] % Half = 0}],
            cf \in [1..n -> [1..NumClasses -> 1..MaxScore]]} :
         n \in 0..MaxDetections}

PostInit ==
  /\ outputs \in MaskRcnnOutputs \cup YolactOutputs
  /\ postArgs \in PostArgs
  /\ outputs0 = outputs
  /\ postRet = NotReturned
  /\ postCalls = 0
  /\ NmsIdle
  /\ SegmIdle
  /\ CheckIdle
  /\ YsIdle

MaskRcnnCall ==
  /\ outputs.kind = "mask_rcnn"
  /\ postCalls < MaxCalls
  /\ LET r == MaskRcnnPostprocess(outputs, postArgs)
     IN  /\ outputs' = r.outputs
         /\ postRet' = r.ret
  /\ postCalls' = postCalls + 1
  /\ UNCHANGED <<postArgs, outputs0, nmsVars, segVars, checkVars, ysVars>>

YolactCall ==
  /\ outputs.kind = "yolact"
  /\ postCalls < MaxCalls
  /\ postRet' \in YolactPostprocess(outputs, postArgs)
  /\ postCalls' = postCalls + 1
  /\ UNCHANGED <<outputs, postArgs, outputs0, nmsVars, segVars, checkVars, ysVars>>

PostNext == MaskRcnnCall \/ YolactCall

SpecPost == PostInit /\ [][PostNext]_vars

----------------------------------------------------------------------------
\* Properties of the postprocessors

Returned == postRet # NotReturned /\ postRet.exc = None

\* The raw detections of the region-proposal outputs that pass the filter.
Passing == {n \in 1..Len(outputs.scores) : outputs.scores[n] > postArgs.conf_threshold}

\* C1: whenever a postprocessor returns, scores, classes, boxes and masks
\* have the same length and every returned detection is a raw detection
\* whose score is strictly greater than conf_threshold; mask_rcnn_postprocess
\* returns exactly the raw detections with score > conf_threshold, in their
\* original order.
C1_Consistent ==
  Returned =>
    /\ Len(postRet.classes) = Len(postRet.scores)
    /\ Len(postRet.boxes) = Len(postRet.scores)
    /\ Len(postRet.masks) = Len(postRet.scores)
    /\ outputs.kind = "mask_rcnn" =>
         /\ Len(postRet.scores) = Cardinality(Passing)
         /\ \E f \in [1..Len(postRet.scores) -> Passing] :
              /\ \A j, k \in 1..Len(postRet.scores) : j < k => f[j] < f[k]
              /\ \A k \in 1..Len(postRet.scores) :
                   /\ postRet.scores[k] = outputs.scores[f[k]]
                   /\ postRet.classes[k] = outputs.classes[f[k]]
                   /\ postRet.boxes[k] = outputs.boxes[f[k]]
    /\ outputs.kind = "yolact" =>
         \A k \in 1..Len(postRet.scores) :
           \E n \in 1..Len(outputs.conf) :
             /\ postRet.classes[k] \in 1..(outputs.num_classes - 1)
             /\ postRet.scores[k] = outputs.conf[n][postRet.classes[k] + 1]
             /\ postRet.scores[k] > postArgs.conf_threshold
             /\ postRet.boxes[k][1] =
                  Clip(outputs.boxes[n][1] + postArgs.input_width
                         - (postArgs.frame_width * postArgs.scale_x.num)
                             \div postArgs.scale_x.den,
                       0, postArgs.frame_width * Half)
             /\ postRet.boxes[k][2] =
                  Clip(outputs.boxes[n][2] + postArgs.input_height
                         - (postArgs.frame_height * postArgs.scale_y.num)
                             \div postArgs.scale_y.den,
                       0, postArgs.frame_height * Half)

\* mask_rcnn_postprocess got two raw detections, the first with a score equal
\* to conf_threshold, and returned only the second.
C1_Witness ==
  /\ Returned
  /\ outputs.kind = "mask_rcnn"
  /\ Len(outputs.scores) = 2
  /\ outputs.scores[1] = postArgs.conf_threshold
  /\ Len(postRet.scores) = 1
  /\ postRet.boxes[1] = outputs.boxes[2]

\* C2: when no class of the prototype-mask input has a score greater than
\* conf_threshold (zero raw detections included), yolact_postprocess returns
\* normally with four empty sequences.
C2_AsStated ==
  (/\ outputs.kind = "yolact"
   /\ postCalls >= 1
   /\ \A n \in 1..Len(outputs.conf) :
        \A cls \in 1..(outputs.num_classes - 1) :
          ~(outputs.conf[n][cls + 1] > postArgs.conf_threshold))
  => /\ postRet.exc = None
     /\ Len(postRet.scores) = 0
     /\ Len(postRet.classes) = 0
     /\ Len(postRet.boxes) = 0
     /\ Len(postRet.masks) = 0

\* C4: after mask_rcnn_postprocess or yolact_postprocess returns, every array
\* of the caller's outputs dictionary holds the values it held before the
\* first call.  (The claim concludes that repeated calls return the same
\* result; the arrays already refute it.)
C4_AsStated ==
  postCalls >= 1 /\ Returned => outputs = outputs0

====
